---- MODULE Spec2Model ----
(***************************************************************************)
(* Model of notebooks/source/discrete_imputation.ipynb: the code cells of  *)
(* the notebook executed once each, top to bottom.                         *)
(*                                                                         *)
(* Fixed-point conventions: real numbers are kept in thousandths (0.25 is  *)
(* 250), probabilities in permille (0.9 is 900), log-probabilities in      *)
(* milli-nats; exp, expit and log1p are computed to six decimals and       *)
(* rounded to the nearest unit.  The output of a PRNG key is revealed when *)
(* a cell consumes it: a normal draw is a value in thousandths, a uniform  *)
(* draw a value in permille.                                               *)
(***************************************************************************)
EXTENDS Integers, Sequences, FiniteSets, TLC

VARIABLES pc, err, bound, Z, A, B, Y, draw,
          A_isobs, Aobs, A_obsidx, Acc, Bcc, Ycc, call, events

vars == <<pc, err, bound, Z, A, B, Y, draw,
          A_isobs, Aobs, A_obsidx, Acc, Bcc, Ycc, call, events>>

\* number of simulated rows (5000 in the notebook, scaled down here)
nsim == 2

\* simulation values of the outcome model, in thousandths
b_A == 250
b_B == 250
s_Y == 250

\* the value that stands for "A is missing" in Aobs
MissingMarker == -1

Rows == 1..nsim

\* values a key's stream can yield, per row
ZDraws     == {-1000, 1000}   \* random.normal(simkeys[0]), thousandths
ADraws     == {100, 500, 900} \* uniforms behind simkeys[1], permille
BDraws     == {100, 500, 900} \* uniforms behind simkeys[2], permille
\* -4000 is the draw at which Y comes out as -1.0 when A = B = 0
NoiseDraws == {-4000, 1000}   \* random.normal(simkeys[3]), thousandths
\* 500 lies among the MAR probabilities, 10 below and 990 above them all
MARDraws   == {10, 500, 990}  \* uniforms behind simkeys[4], permille
MNARDraws  == {50, 500, 950}  \* uniforms behind simkeys[5], permille
\* parameter values the sampler evaluates a model at: <<mu_A, b_B_A>>
ThetaDraws == {<<-1000, 1000>>, <<0, 1000>>}

Unbound == <<>>

\* the cell executed last has called no sampler
NoCall == [mcmc |-> "none", model |-> "none", A |-> <<>>, B |-> <<>>,
           Y |-> <<>>, trace |-> <<>>]

----------------------------------------------------------------------------
\* numeric helpers

\* bool -> int promotion of an array element
AsInt(b) == IF b THEN 1 ELSE 0

RECURSIVE SumUpTo(_, _)
SumUpTo(s, n) == IF n = 0 THEN 0 ELSE s[n] + SumUpTo(s, n - 1)

\* n / d rounded to the nearest integer, for n >= 0 and d > 0
RoundDiv(n, d) == (n + d \div 2) \div d

\* Y.mean()
mean(s) == (2 * SumUpTo(s, Len(s)) + Len(s)) \div (2 * Len(s))

Abs(x) == IF x < 0 THEN -x ELSE x
Max0(x) == IF x < 0 THEN 0 ELSE x

\* 1.0 in the six-decimal fixed point the transcendental functions use
One == 1000 * 1000

\* a * b in six-decimal fixed point, for 0 <= a, b <= One, by long
\* multiplication on three-digit halves
MulS(a, b) ==
    LET a1 == a \div 1000
        a0 == a % 1000
        b1 == b \div 1000
        b0 == b % 1000
    IN  a1 * b1 + (a1 * b0 + a0 * b1 + (a0 * b0) \div 1000) \div 1000

\* exp(-k) for an integer k >= 0, six decimals
ExpNegInt(k) ==
    CASE k = 0 -> 1000000 [] k = 1 -> 367879 [] k = 2 -> 135335
      [] k = 3 -> 49787   [] k = 4 -> 18316  [] k = 5 -> 6738
      [] k = 6 -> 2479    [] k = 7 -> 912    [] k = 8 -> 335
      [] k = 9 -> 123     [] k = 10 -> 45    [] k = 11 -> 17
      [] k = 12 -> 6      [] k = 13 -> 2     [] k = 14 -> 1
      [] OTHER -> 0

\* exp(-r/1000) for 0 <= r < 1000, six decimals: the Taylor series of exp
\* in Horner form, 1 - r/1 * (1 - r/2 * (1 - r/3 * ...)), twelve terms
RECURSIVE ExpNegFrac(_, _)
ExpNegFrac(r, n) ==
    IF n > 12 THEN One
    ELSE One - (r * ExpNegFrac(r, n + 1)) \div (1000 * n)

\* exp(-t) for t >= 0 (thousandths), six decimals
ExpNeg(t) == MulS(ExpNegInt(t \div 1000), ExpNegFrac(t % 1000, 1))

\* 1 / (1 + exp(-t)) for t >= 0 (thousandths), in permille
ExpitNonNeg(t) == RoundDiv(1000 * One, One + ExpNeg(t))

\* jax.scipy.special.expit of x (thousandths), in permille: the logistic
\* function 1 / (1 + exp(-x)), rounded to the nearest permille
expit(x) == IF x >= 0 THEN ExpitNonNeg(x) ELSE 1000 - ExpitNonNeg(-x)

\* random.bernoulli(key, p): the key's uniforms compared with p, row by row
bernoulli(u, p) == [i \in DOMAIN p |-> u[i] < p[i]]

\* eh / (1 + eh) in six-decimal fixed point, for 0 <= eh <= One, by long
\* division in two three-digit steps
DivByOnePlus(eh) ==
    ((eh * 1000) \div (One + eh)) * 1000
        + (((eh * 1000) % (One + eh)) * 1000) \div (One + eh)

\* 2 * atanh(z) in milli-nats, rounded to the nearest, given w = z * z:
\* 2 * z * (1 + w/3 + w^2/5 + w^3/7 + w^4/9 + w^5/11)
TwiceAtanh(z, w) ==
    RoundDiv(2 * MulS(z, One + MulS(w, One \div 3 + MulS(w, One \div 5
                  + MulS(w, One \div 7 + MulS(w, One \div 9
                  + MulS(w, One \div 11)))))), 1000)

\* log(1 + e) in milli-nats for z = e / (2 + e)
Log1pFromRatio(z) == TwiceAtanh(z, MulS(z, z))

\* log1p(exp(-t)) for t >= 0 (thousandths), in milli-nats, rounded to the
\* nearest: with e = exp(-t) and z = e / (2 + e), log(1 + e) is 2 * atanh(z)
Log1pExpNeg(t) == Log1pFromRatio(DivByOnePlus(ExpNeg(t) \div 2))

\* log1p(exp(-|eta|)) at the logits of the parameter values ThetaDraws,
\* computed once
Log1pExpNegAt ==
    [t \in {Abs(theta[1] + b * theta[2]) : theta \in ThetaDraws, b \in 0..1}
        |-> Log1pExpNeg(t)]

\* log1p(exp(-|eta|)) at any logit
Log1pExpNegAbs(eta) ==
    IF Abs(eta) \in DOMAIN Log1pExpNegAt THEN Log1pExpNegAt[Abs(eta)]
    ELSE Log1pExpNeg(Abs(eta))

\* dist.Bernoulli(logits=eta).log_prob(a), in milli-nats, eta in
\* thousandths: a * eta - max(eta, 0) - log1p(exp(-|eta|))
BernoulliLogProb(eta, a) ==
    a * eta - Max0(eta) - Log1pExpNegAbs(eta)

\* log-weights: -inf or a finite number of milli-nats
NegInf == [neginf |-> TRUE, val |-> 0]
Finite(v) == [neginf |-> FALSE, val |-> v]

----------------------------------------------------------------------------
\* the simulation cell

\* A = random.bernoulli(simkeys[1], expit(Z)), likewise B
SimCovariate(u, z) == bernoulli(u, [i \in Rows |-> expit(z[i])])

\* Y = A * b_A + B * b_B + s_Y * random.normal(simkeys[3], (nsim,))
SimOutcome(a, b, n) ==
    [i \in Rows |-> AsInt(a[i]) * b_A + AsInt(b[i]) * b_B
                    + (s_Y * n[i]) \div 1000]

\* the dataset the simulation cell binds, given what the four keys yield
Simulate(z, ua, ub, n) ==
    LET a == SimCovariate(ua, z)
        b == SimCovariate(ub, z)
    IN  [Z |-> z, A |-> a, B |-> b, Y |-> SimOutcome(a, b, n)]

\* every dataset the simulation cell can bind
Datasets ==
    { Simulate(z, ua, ub, n) :
        z \in [Rows -> ZDraws], ua \in [Rows -> ADraws],
        ub \in [Rows -> BDraws], n \in [Rows -> NoiseDraws] }

----------------------------------------------------------------------------
\* the missingness cells

\* a variant in which the covariate A, not the outcome Y, drives the MAR
\* missingness: expit(3*(A - A.mean()))
MARProb_Mut(env) ==
    [i \in Rows |->
        expit(3 * (1000 * AsInt(env.A[i])
                   - mean([j \in Rows |-> 1000 * AsInt(env.A[j])])))]

\* MAR: the probability that A is observed, expit(3*(Y - Y.mean()))
MARProb(env) == [i \in Rows |-> expit(3 * (env.Y[i] - mean(env.Y)))]

\* MAR: A_isobs = random.bernoulli(simkeys[4], expit(3*(Y - Y.mean())))
MARIsObs(u, env) == bernoulli(u, MARProb(env))

\* a variant in which B, not A, drives the MNAR missingness
MNARProb_Mut(env) == [i \in Rows |-> 900 - 800 * AsInt(env.B[i])]

\* MNAR: the probability that A is observed, 0.9 - 0.8 * A
MNARProb(env) == [i \in Rows |-> 900 - 800 * AsInt(env.A[i])]

\* MNAR: A_isobs = random.bernoulli(simkeys[5], 0.9 - 0.8 * A)
MNARIsObs(u, env) == bernoulli(u, MNARProb(env))

\* jnp.where(A_isobs, A, -1)
MaskMissing(isobs, a) ==
    [i \in Rows |-> IF isobs[i] THEN AsInt(a[i]) ELSE MissingMarker]

RECURSIVE TrueIdxUpTo(_, _)
TrueIdxUpTo(c, n) ==
    IF n = 0 THEN <<>>
    ELSE IF c[n] THEN Append(TrueIdxUpTo(c, n - 1), n)
         ELSE TrueIdxUpTo(c, n - 1)

\* a variant that keeps every index
WhereIdx_Mut(c) == [k \in 1..Len(c) |-> k]

\* jnp.where(cond): the indices where cond holds, ascending
WhereIdx(c) == TrueIdxUpTo(c, Len(c))

\* x[idx]
Take(x, idx) == [k \in 1..Len(idx) |-> x[idx[k]]]

----------------------------------------------------------------------------
\* the three models, evaluated once at the parameter values theta

\* a variant that forgets the A_isobs conjunct
CancelUnobserved_Mut(isobs, aimp, a, logp) ==
    IF aimp # a THEN NegInf ELSE Finite(logp)

\* jnp.where(A_isobs & (Aimp != A), -inf, log_prob), one element
CancelUnobserved(isobs, aimp, a, logp) ==
    IF isobs /\ aimp # a THEN NegInf ELSE Finite(logp)

\* the values of the discrete site "A" that enumeration runs over
Support == {0, 1}

\* ccmodel(A, B, Y): no discrete site and no factor
ccmodel(a, b, y) == [ntotal |-> Len(a), site |-> "none", eta_A |-> <<>>,
                     log_prob |-> <<>>]

\* impmodel(A, B, Y): the log-weight handed to numpyro.factor('A_obs', ...)
\* for every row and every enumerated value of "A"
impmodel(a, b, y, theta) ==
    LET ntotal == Len(a)
        isobs  == [i \in 1..ntotal |-> a[i] >= 0]
        eta    == [i \in 1..ntotal |-> theta[1] + AsInt(b[i]) * theta[2]]
    IN  [ntotal |-> ntotal, site |-> "A_obs", eta_A |-> eta,
         log_prob |-> [i \in 1..ntotal |-> [aimp \in Support |->
             CancelUnobserved(isobs[i], aimp, a[i],
                              BernoulliLogProb(eta[i], aimp))]]]

\* impmissmodel(A, B, Y): the log-weight handed to
\* numpyro.factor('obs_A', ...)
impmissmodel(a, b, y, theta) ==
    LET ntotal == Len(a)
        isobs  == [i \in 1..ntotal |-> a[i] >= 0]
        eta    == [i \in 1..ntotal |-> theta[1] + AsInt(b[i]) * theta[2]]
    IN  [ntotal |-> ntotal, site |-> "obs_A", eta_A |-> eta,
         log_prob |-> [i \in 1..ntotal |-> [aimp \in Support |->
             CancelUnobserved(isobs[i], aimp, a[i],
                              BernoulliLogProb(eta[i], aimp))]]]

----------------------------------------------------------------------------
\* the code cells; cell c is the one with execution count c

Imports == {"numpyro", "jnp", "random", "ops", "expit", "dist", "sample",
            "MCMC", "NUTS", "inf", "Digraph"}

MissingnessNames == {"A_isobs", "Aobs", "A_obsidx", "Acc", "Bcc", "Ycc"}

\* names a model body looks up when the sampler calls it
ModelBodyReads == {"sample", "dist", "numpyro"}
ImpBodyReads   == ModelBodyReads \cup {"jnp", "inf"}

\* one statement: the names it looks up and the names it binds
Stmt(reads, binds) == [reads |-> reads, binds |-> binds]

\* the statements of a graph cell: g = Digraph(), an optional
\* "with h.subgraph() as s:" block, then calls on g and the display of g
GraphStmts(g, h) ==
    << Stmt({"Digraph"}, {g}), Stmt({h}, {"s"}), Stmt({"s"}, {}),
       Stmt({g}, {}) >>

\* the six statements of a missingness cell, the first reading firstReads
MissingnessStmts(firstReads) ==
    << Stmt(firstReads, {"A_isobs"}),
       Stmt({"jnp", "A_isobs", "A"}, {"Aobs"}),
       Stmt({"jnp", "A_isobs"}, {"A_obsidx"}),
       Stmt({"Aobs", "A_obsidx"}, {"Acc"}),
       Stmt({"B", "A_obsidx"}, {"Bcc"}),
       Stmt({"Y", "A_obsidx"}, {"Ycc"}) >>

\* the four statements of a sampler cell: kernel = NUTS(model);
\* mcmc = MCMC(kernel, ...); mcmc.run(mcmc_key, a, b, y); mcmc.print_summary()
RunStmts(kernel, mcmc, model, args, bodyReads) ==
    << Stmt({"NUTS", model}, {kernel}),
       Stmt({"MCMC", kernel}, {mcmc}),
       Stmt({mcmc, "mcmc_key"} \cup args \cup bodyReads, {}),
       Stmt({mcmc}, {}) >>

\* the statements of cell c, in order; the imports, which look up no name,
\* are one entry, and so is a run of statements that bind nothing and look
\* up the same names
CellStmts(c) ==
    CASE c = 1  -> << Stmt({}, Imports), Stmt({"random"}, {"simkeys"}),
                      Stmt({}, {"nsim"}), Stmt({"random"}, {"mcmc_key"}) >>
      [] c = 2  -> << Stmt({"Digraph"}, {"dot"}), Stmt({"dot"}, {}) >>
      [] c = 3  -> << Stmt({}, {"b_A"}), Stmt({}, {"b_B"}), Stmt({}, {"s_Y"}),
                      Stmt({"random", "simkeys", "nsim"}, {"Z"}),
                      Stmt({"random", "simkeys", "expit", "Z"}, {"A"}),
                      Stmt({"random", "simkeys", "expit", "Z"}, {"B"}),
                      Stmt({"A", "b_A", "B", "b_B", "s_Y", "random",
                            "simkeys", "nsim"}, {"Y"}) >>
      [] c = 4  -> GraphStmts("dot_mnar_y", "dot_mnar_y")
      [] c = 5  -> MissingnessStmts({"random", "simkeys", "expit", "Y"})
      [] c = 6  -> << Stmt({}, {"ccmodel"}) >>
      [] c = 7  -> RunStmts("cckernel", "ccmcmc", "ccmodel",
                            {"Acc", "Bcc", "Ycc"}, ModelBodyReads)
      [] c = 8  -> << Stmt({}, {"impmodel"}) >>
      [] c = 9  -> RunStmts("impkernel", "impmcmc", "impmodel",
                            {"Aobs", "B", "Y"}, ImpBodyReads)
      [] c = 10 -> GraphStmts("dot_mnar_x", "dot_mnar_y")
      [] c = 11 -> MissingnessStmts({"random", "simkeys", "A"})
      [] c = 12 -> RunStmts("cckernel", "ccmcmc", "ccmodel",
                            {"Acc", "Bcc", "Ycc"}, ModelBodyReads)
      [] c = 13 -> RunStmts("impkernel", "impmcmc", "impmodel",
                            {"Aobs", "B", "Y"}, ImpBodyReads)
      [] c = 14 -> << Stmt({}, {"impmissmodel"}) >>
      [] c = 15 -> RunStmts("impmisskernel", "impmissmcmc", "impmissmodel",
                            {"Aobs", "B", "Y"}, ImpBodyReads)

\* the names that are bound once the first k statements of stmts have run
\* from the bound names bnd
RECURSIVE BoundAfter(_, _, _)
BoundAfter(stmts, k, bnd) ==
    IF k = 0 THEN bnd
    ELSE BoundAfter(stmts, k - 1, bnd) \cup stmts[k].binds

\* how many statements of stmts run, from statement k + 1 on with the names
\* bnd bound, before one looks up a name that is not bound (NameError);
\* Len(stmts) when none does
RECURSIVE RunUpTo(_, _, _)
RunUpTo(stmts, k, bnd) ==
    IF k = Len(stmts) THEN k
    ELSE IF stmts[k + 1].reads \subseteq bnd
         THEN RunUpTo(stmts, k + 1, bnd \cup stmts[k + 1].binds)
         ELSE k

\* the number of statements of cell c that run in the current state
Executed(c) == RunUpTo(CellStmts(c), 0, bound)

\* the names cell c binds when it runs to its end
Binds(c) == BoundAfter(CellStmts(c), Len(CellStmts(c)), {})

data == <<Z, A, B, Y>>
miss == <<draw, A_isobs, Aobs, A_obsidx, Acc, Bcc, Ycc>>

\* the new value of a name that statement j of a cell assigns when k of the
\* cell's statements run: new when statement j runs, old when an earlier
\* statement has raised NameError
Assigned(k, j, new, old) == IF k >= j THEN new ELSE old

\* what running k of the statements of cell c does to the bound names and
\* to the position: the k statements' bindings stay; the notebook moves on
\* when the cell has run to its end and stops at the cell otherwise
Advance(c, k) ==
    /\ bound' = BoundAfter(CellStmts(c), k, bound)
    /\ IF k = Len(CellStmts(c))
       THEN pc' = c + 1 /\ err' = FALSE
       ELSE pc' = pc /\ err' = TRUE

\* executing cell c: its statements run in order; a lookup of an unbound
\* name raises NameError, which ends the run and leaves the earlier
\* statements' bindings in place.  effect gives the cell's assignments.
Exec(c, effect) ==
    /\ pc = c
    /\ ~err
    /\ Advance(c, Executed(c))
    /\ effect

Init ==
    /\ pc = 1
    /\ err = FALSE
    /\ bound = {}
    /\ Z = Unbound /\ A = Unbound /\ B = Unbound /\ Y = Unbound
    /\ draw = Unbound
    /\ A_isobs = Unbound /\ Aobs = Unbound /\ A_obsidx = Unbound
    /\ Acc = Unbound /\ Bcc = Unbound /\ Ycc = Unbound
    /\ call = NoCall
    /\ events = <<>>

\* imports, simkeys, nsim, mcmc_key
SetupCell == Exec(1,
    call' = NoCall /\ UNCHANGED <<data, miss, events>>)

\* dot = Digraph() ...
DotCell == Exec(2,
    call' = NoCall /\ UNCHANGED <<data, miss, events>>)

\* b_A, b_B, s_Y, Z, A, B, Y
SimulationCell ==
    Exec(3, \E k \in {Executed(3)},
               z \in [Rows -> ZDraws], ua \in [Rows -> ADraws],
               ub \in [Rows -> BDraws], n \in [Rows -> NoiseDraws] :
                /\ Z' = Assigned(k, 4, z, Z)
                /\ A' = Assigned(k, 5, SimCovariate(ua, z), A)
                /\ B' = Assigned(k, 6, SimCovariate(ub, z), B)
                /\ Y' = Assigned(k, 7, Simulate(z, ua, ub, n).Y, Y)
                /\ call' = NoCall
                /\ UNCHANGED <<miss, events>>)

\* dot_mnar_y = Digraph() ...
DotMarCell == Exec(4,
    call' = NoCall /\ UNCHANGED <<data, miss, events>>)

\* a variant that also writes the missing marker into Y
BindMissingness_Mut(k, u, isobs) ==
    /\ draw' = Assigned(k, 1, u, draw)
    /\ A_isobs' = Assigned(k, 1, isobs, A_isobs)
    /\ Aobs' = Assigned(k, 2, MaskMissing(A_isobs', A), Aobs)
    /\ A_obsidx' = Assigned(k, 3, WhereIdx(A_isobs'), A_obsidx)
    /\ Acc' = Assigned(k, 4, Take(Aobs', A_obsidx'), Acc)
    /\ Bcc' = Assigned(k, 5, Take(B, A_obsidx'), Bcc)
    /\ Ycc' = Assigned(k, 6, Take(Y, A_obsidx'), Ycc)
    /\ Y' = Assigned(k, 2, [i \in Rows |-> IF isobs[i] THEN Y[i]
                                           ELSE 1000 * MissingMarker], Y)
    /\ call' = NoCall
    /\ UNCHANGED <<Z, A, B, events>>

\* the six assignments of a missingness cell of which k statements run,
\* given the A_isobs that its first statement computes from the key's
\* uniforms u; no other name is rebound
BindMissingness(k, u, isobs) ==
    /\ draw' = Assigned(k, 1, u, draw)
    /\ A_isobs' = Assigned(k, 1, isobs, A_isobs)
    /\ Aobs' = Assigned(k, 2, MaskMissing(A_isobs', A), Aobs)
    /\ A_obsidx' = Assigned(k, 3, WhereIdx(A_isobs'), A_obsidx)
    /\ Acc' = Assigned(k, 4, Take(Aobs', A_obsidx'), Acc)
    /\ Bcc' = Assigned(k, 5, Take(B, A_obsidx'), Bcc)
    /\ Ycc' = Assigned(k, 6, Take(Y, A_obsidx'), Ycc)
    /\ call' = NoCall
    /\ UNCHANGED <<data, events>>

Env == [Z |-> Z, A |-> A, B |-> B, Y |-> Y]

\* MAR: A_isobs, Aobs, A_obsidx, Acc, Bcc, Ycc
MARCell ==
    Exec(5, \E k \in {Executed(5)}, u \in [Rows -> MARDraws] :
                BindMissingness(k, u, MARIsObs(u, Env)))

\* def ccmodel, def impmodel, def impmissmodel
DefCell(c, name) ==
    Exec(c, \E k \in {Executed(c)} :
            /\ events' = Assigned(k, 1, Append(events, <<"def", name>>),
                                  events)
            /\ call' = NoCall
            /\ UNCHANGED <<data, miss>>)

CcModelCell == DefCell(6, "ccmodel")
ImpModelCell == DefCell(8, "impmodel")
ImpMissModelCell == DefCell(14, "impmissmodel")

\* a variant that leaves out print_summary
RunEvents_Mut(k, mcmc, model) ==
    events' = Assigned(k, 3, Append(events, <<"run", mcmc, model>>), events)

\* what a sampler cell of which k statements run appends to the record of
\* calls: the run (its third statement) and the print_summary (its fourth)
RunEvents(k, mcmc, model) ==
    events' = Assigned(k, 4,
                  events \o << <<"run", mcmc, model>>,
                               <<"print_summary", mcmc>> >>,
                  Assigned(k, 3, Append(events, <<"run", mcmc, model>>),
                           events))

\* ccmcmc.run(mcmc_key, Acc, Bcc, Ycc); ccmcmc.print_summary()
CcRun(c) ==
    Exec(c, \E k \in {Executed(c)} :
            /\ call' = Assigned(k, 3,
                              [mcmc |-> "ccmcmc", model |-> "ccmodel",
                               A |-> Acc, B |-> Bcc, Y |-> Ycc,
                               trace |-> ccmodel(Acc, Bcc, Ycc)],
                              NoCall)
            /\ RunEvents(k, "ccmcmc", "ccmodel")
            /\ UNCHANGED <<data, miss>>)

\* impmcmc.run(mcmc_key, Aobs, B, Y); impmcmc.print_summary()
ImpRun(c) ==
    Exec(c, \E k \in {Executed(c)} :
            /\ call' = Assigned(k, 3,
                              [mcmc |-> "impmcmc", model |-> "impmodel",
                               A |-> Aobs, B |-> B, Y |-> Y,
                               trace |-> [theta \in ThetaDraws |->
                                             impmodel(Aobs, B, Y, theta)]],
                              NoCall)
            /\ RunEvents(k, "impmcmc", "impmodel")
            /\ UNCHANGED <<data, miss>>)

CcRunMarCell == CcRun(7)
ImpRunMarCell == ImpRun(9)

\* dot_mnar_x = Digraph() ...
DotMnarCell == Exec(10,
    call' = NoCall /\ UNCHANGED <<data, miss, events>>)

\* MNAR: A_isobs, Aobs, A_obsidx, Acc, Bcc, Ycc
MNARCell ==
    Exec(11, \E k \in {Executed(11)}, u \in [Rows -> MNARDraws] :
                 BindMissingness(k, u, MNARIsObs(u, Env)))

CcRunMnarCell == CcRun(12)
ImpRunMnarCell == ImpRun(13)

\* impmissmcmc.run(mcmc_key, Aobs, B, Y); impmissmcmc.print_summary()
ImpMissRunCell ==
    Exec(15, \E k \in {Executed(15)} :
             /\ call' = Assigned(k, 3,
                               [mcmc |-> "impmissmcmc",
                                model |-> "impmissmodel",
                                A |-> Aobs, B |-> B, Y |-> Y,
                                trace |-> [theta \in ThetaDraws |->
                                              impmissmodel(Aobs, B, Y, theta)]],
                               NoCall)
             /\ RunEvents(k, "impmissmcmc", "impmissmodel")
             /\ UNCHANGED <<data, miss>>)

Next ==
    \/ SetupCell
    \/ DotCell
    \/ SimulationCell
    \/ DotMarCell
    \/ MARCell
    \/ CcModelCell
    \/ CcRunMarCell
    \/ ImpModelCell
    \/ ImpRunMarCell
    \/ DotMnarCell
    \/ MNARCell
    \/ CcRunMnarCell
    \/ ImpRunMnarCell
    \/ ImpMissModelCell
    \/ ImpMissRunCell

Spec == Init /\ [][Next]_vars

TypeOK ==
    /\ pc \in 1..16
    /\ err \in BOOLEAN

----------------------------------------------------------------------------
\* properties

ImpModels == {"impmodel", "impmissmodel"}
ImpSamplers == {"impmcmc", "impmissmcmc"}

\* the Bernoulli(logits=eta_A) log-probability of the value a of "A" in a
\* row with covariate b, at the parameter values theta
LogProbAt ==
    [theta \in ThetaDraws |-> [b \in BOOLEAN |-> [a \in Support |->
        BernoulliLogProb(theta[1] + AsInt(b) * theta[2], a)]]]

\* the enumerated values of "A" that the factor of the call leaves
\* uncancelled in row i, at the parameter values theta
Uncancelled(theta, i) ==
    {a \in Support : ~call.trace[theta].log_prob[i][a].neginf}

\* C1: in impmodel and impmissmodel, for every row i and enumerated value a
\* of site "A", the log-weight given to numpyro.factor is -inf exactly when
\* the row is observed (A[i] >= 0) and a # A[i]; otherwise it is the
\* Bernoulli(logits=eta_A[i]) log-probability of a.  So an observed row keeps
\* only its observed value.
C1_FactorCancelsExactlyMismatches ==
    call.model \in ImpModels =>
        \A theta \in ThetaDraws, i \in 1..Len(call.A) :
            /\ \A a \in Support :
                 LET w == call.trace[theta].log_prob[i][a]
                 IN  /\ w.neginf <=> (call.A[i] >= 0 /\ a # call.A[i])
                     /\ ~w.neginf =>
                            w.val = LogProbAt[theta][call.B[i]][a]
            /\ call.A[i] >= 0 => Uncancelled(theta, i) = {call.A[i]}

\* an imputation run over a dataset with a missing row and an observed row
\* whose other value is cancelled
C1_Witness ==
    /\ call.model = "impmissmodel"
    /\ \E i \in 1..Len(call.A) :
          /\ call.A[i] = MissingMarker
          /\ \A theta \in ThetaDraws : Uncancelled(theta, i) = Support
    /\ \E j \in 1..Len(call.A) :
          /\ call.A[j] = 1
          /\ \A theta \in ThetaDraws :
                call.trace[theta].log_prob[j][0].neginf

\* C2: in the MNAR scenario a row with A = 1 has a strictly greater
\* probability of having A observed than a row with A = 0.
C2_ObservedMoreLikelyWhenA1 ==
    (pc > 11 /\ ~err) =>
        \A i, j \in Rows :
            (A[i] /\ ~A[j]) => MNARProb(Env)[i] > MNARProb(Env)[j]

\* the MAR observation probabilities of the simulated datasets whose
\* outcome array is y
MARProbsWithY ==
    [y \in {d.Y : d \in Datasets} |->
        {MARProb(d) : d \in {e \in Datasets : e.Y = y}}]

\* C3: in the MAR scenario the observation indicator is a function of Y and
\* the key simkeys[4] only: every simulated dataset with the same Y gets,
\* from the same key, the same A_isobs, whatever its A, B and Z.
C3_MARDependsOnYOnly ==
    (pc \in 6..11 /\ ~err) =>
        \A p \in MARProbsWithY[Y] : bernoulli(draw, p) = A_isobs

\* after the MAR cell, with two rows that drew the same uniform, of which Y
\* made one observed and the other missing, and another dataset that has
\* the same Y and a different A, B and Z
C3_Witness ==
    /\ pc = 6
    /\ \E i, j \in Rows :
          /\ draw[i] = draw[j]
          /\ Y[i] > Y[j]
          /\ A_isobs[i] /\ ~A_isobs[j]
    /\ \E d \in Datasets : d.Y = Y /\ d.A # A /\ d.B # B /\ d.Z # Z

\* the MNAR observation probabilities of the simulated datasets whose
\* covariate array is a
MNARProbsWithA ==
    [a \in {d.A : d \in Datasets} |->
        {MNARProb(d) : d \in {e \in Datasets : e.A = a}}]

\* C4: in the MNAR scenario the observation indicator is a function of A and
\* the key simkeys[5] only: every simulated dataset with the same A gets,
\* from the same key, the same A_isobs, whatever its B, Y and Z; and the
\* probability of observing a row is 0.9 when A = 0 and 0.1 when A = 1,
\* both within [0, 1].
C4_MNARDependsOnAOnly ==
    (pc > 11 /\ ~err) =>
        /\ \A p \in MNARProbsWithA[A] : bernoulli(draw, p) = A_isobs
        /\ \A i \in Rows :
              /\ MNARProb(Env)[i] = (IF A[i] THEN 100 ELSE 900)
              /\ MNARProb(Env)[i] \in 0..1000

\* after the MNAR cell, with both values of A present, a row observed and a
\* row missing, and another dataset that has the same A and a different B, Y
\* and Z
C4_Witness ==
    /\ pc = 12
    /\ \E i, j \in Rows : A[i] /\ ~A[j]
    /\ \E i, j \in Rows : A_isobs[i] /\ ~A_isobs[j]
    /\ \E d \in Datasets : d.A = A /\ d.B # B /\ d.Y # Y /\ d.Z # Z

NumObserved == Cardinality({i \in Rows : A_isobs[i]})

\* C5: every impmcmc.run and impmissmcmc.run call gets arrays (Aobs, B, Y)
\* of length nsim; every ccmcmc.run call gets arrays (Acc, Bcc, Ycc) whose
\* common length is the number of rows with A_isobs true in the scenario
\* at hand.
C5_RunLengths ==
    /\ call.mcmc \in ImpSamplers =>
          /\ Len(call.A) = nsim
          /\ Len(call.B) = nsim
          /\ Len(call.Y) = nsim
          /\ \A theta \in ThetaDraws : call.trace[theta].ntotal = nsim
    /\ call.mcmc = "ccmcmc" =>
          /\ Len(call.A) = NumObserved
          /\ Len(call.B) = NumObserved
          /\ Len(call.Y) = NumObserved
          /\ call.trace.ntotal = NumObserved

\* a complete-case run that lost some rows but not all
C5_Witness ==
    /\ call.mcmc = "ccmcmc"
    /\ Len(call.A) > 0
    /\ Len(call.A) < nsim

\* a step taken after the simulation cell leaves Z, A, B and Y alone
DataKept == pc > 3 => UNCHANGED <<Z, A, B, Y>>

\* a step of a missingness cell binds none but the six missingness names
MissingnessBindsOnlyItsNames ==
    pc \in {5, 11} =>
        /\ (bound' \ bound) \subseteq MissingnessNames
        /\ call' = NoCall
        /\ UNCHANGED <<Z, A, B, Y, events>>

\* C6 as claimed: once the simulation cell has run, no cell changes Z, A, B
\* or Y; the two missingness cells bind only A_isobs, Aobs, A_obsidx, Acc,
\* Bcc and Ycc; and the arrays B and Y given to the imputation runs never
\* contain the value -1 of the missing marker.
C6_NoMarkerValueInBAndY ==
    /\ [][DataKept]_vars
    /\ [][MissingnessBindsOnlyItsNames]_vars
    /\ [](call.mcmc \in ImpSamplers =>
            \A i \in Rows :
                /\ call.B[i] \in BOOLEAN
                /\ call.Y[i] # 1000 * MissingMarker)

\* C6 as amended: once the simulation cell has run, no cell changes Z, A, B
\* or Y; the two missingness cells bind only A_isobs, Aobs, A_obsidx, Acc,
\* Bcc and Ycc; and the B and Y given to the imputation runs are the
\* simulated arrays themselves, B holding no -1.  (Y holds -1.0 where the
\* simulation produced that outcome.)
C6_DataFrame ==
    /\ [][DataKept]_vars
    /\ [][MissingnessBindsOnlyItsNames]_vars
    /\ [](call.mcmc \in ImpSamplers =>
            /\ call.B = B
            /\ call.Y = Y
            /\ \A i \in Rows : call.B[i] \in BOOLEAN)

\* the last imputation run, over a dataset in which the MNAR cell has
\* marked a row of A as missing and the simulation has produced the
\* outcome -1.0 in a row of Y
C6_Witness ==
    /\ pc = 16
    /\ call.mcmc = "impmissmcmc"
    /\ \E i \in Rows : Aobs[i] = MissingMarker
    /\ \E i \in Rows : call.A[i] = MissingMarker
    /\ \E i \in Rows : call.Y[i] = 1000 * MissingMarker

\* the names each cell binds when it runs to its end
CellBinds == [c \in 1..15 |-> Binds(c)]

\* C7: with the cells executed once each in notebook order, no cell reads a
\* name that is not bound yet, every sampler run comes after the definition
\* of its model, and every run is immediately followed by print_summary on
\* the same MCMC object.
C7_TopToBottomSuffices ==
    /\ ~err
    /\ \A c \in 1..15 : pc > c => CellBinds[c] \subseteq bound
    /\ \A k \in 1..Len(events) :
          events[k][1] = "run" =>
              /\ \E j \in 1..(k - 1) :
                    /\ events[j][1] = "def"
                    /\ events[j][2] = events[k][3]
              /\ k + 1 <= Len(events)
              /\ events[k + 1][1] = "print_summary"
              /\ events[k + 1][2] = events[k][2]

\* the notebook has run to its end: three definitions and five runs
C7_Witness ==
    /\ pc = 16
    /\ ~err
    /\ Len(events) = 13
    /\ events[12] = <<"run", "impmissmcmc", "impmissmodel">>

====
